---- MODULE Spec2Model ----
(***************************************************************************)
(* The viewport-motion engine of flower-power: the hook useCanvasMovement  *)
(* (src/src/hooks/useCanvasMovement.ts) and its configuration resolver     *)
(* createMovementConfig (src/src/lib/config.ts).                           *)
(*                                                                         *)
(* Numbers.  The program computes in IEEE doubles.  The model computes in  *)
(* fixed point, every product and quotient truncated toward zero:          *)
(*   - lengths (translate, target, velocity, bounds, focal point, pointer  *)
(*     coordinates) in units of 1/PQ pixel;                                *)
(*   - scales (scale, targetScale, scaleVelocity, minScale, maxScale) in   *)
(*     units of 1/SQ;                                                      *)
(*   - the physics constants of a profile in hundredths (1/FQ);            *)
(*   - wheelSensitivity in units of 1/WQ;                                  *)
(*   - an inter-pointer distance (Math.hypot) in units of 1/DQ pixel.      *)
(* A statement that the program can only meet up to rounding is stated     *)
(* with a tolerance of a few units.                                        *)
(*                                                                         *)
(* Infinity and NaN.  A division by zero leaves Infinity or NaN in a       *)
(* double, every later result computed from it is Infinity or NaN again,   *)
(* and every comparison with NaN is false.  The model does not compute     *)
(* with such values: the engine carries two flags, nonFiniteTarget         *)
(* (targetScale is Infinity or NaN) and nonFinite (scale, and with it      *)
(* translate and target, are), and the numbers of a flagged field are      *)
(* left as they were.                                                      *)
(***************************************************************************)
EXTENDS Integers, Sequences, FiniteSets, TLC

VARIABLES
  options,    \* the CanvasOptions the host passes (a field is None when unspecified)
  config,     \* createMovementConfig(options)
  container,  \* props.container(): None, or Some([w, h]), the element's size in pixels
  eng,        \* the hook's closure variables (useCanvasMovement.ts 20-39)
  raf,        \* the browser's queue: how many requestAnimationFrame callbacks are pending
  disposed,   \* TRUE once the onCleanup callback has run
  touches,    \* the touches currently on the surface (the TouchEvent's e.touches)
  steps,      \* history: how many input events and display frames have been handled
  log,        \* history: the input events of a scenario, in order
  args,       \* the inputs of a function-level or scenario specification
  ret         \* ... and what it returned (None before the call)

vars == <<options, config, container, eng, raf, disposed, touches, steps, log, args, ret>>

NULL == "null"

\* a value that may be absent (null, undefined): None, or Some(v)
None == << >>
Some(v) == <<v>>
Get(o) == o[1]

-----------------------------------------------------------------------------
(* Fixed-point arithmetic *)

PQ == 10^4
SQ == 10^5
FQ == 10^2
WQ == 10^6
DQ == 10^1

Limb == 2^10

Abs(x) == IF x < 0 THEN -x ELSE x
Sign(x) == IF x < 0 THEN -1 ELSE 1
Max(a, b) == IF a >= b THEN a ELSE b
Min(a, b) == IF a <= b THEN a ELSE b

\* a const or let of the code: { F(v) : v \in {expr} } computes expr once and
\* Only takes the one result
Only(S) == CHOOSE r \in S : TRUE

\* One step of the long division of a product by d: from <<q, r>>, the quotient
\* and remainder so far, and t = r * Limb + limb * b.
DivStep(q, t, d) == <<q * Limb + t \div d, t % d>>
NextLimb(qr, limb, b, d) == DivStep(qr[1], qr[2] * Limb + limb * b, d)

\* floor(a*b/d) for 0 <= a < 2^30, 0 <= b, 0 < d, b + d < 2^21, without an
\* intermediate above 2^31: a is taken in three limbs.
MulDivNat(a, b, d) ==
  Only({ NextLimb(low, a % Limb, b, d)[1] :
         low \in { NextLimb(high, (a \div Limb) % Limb, b, d) :
                   high \in {NextLimb(<<0, 0>>, a \div (Limb * Limb), b, d)} } })

\* a*b/d truncated toward zero (d # 0).
MulDiv(a, b, d) ==
  Only({ Sign(x[1]) * Sign(x[2]) * Sign(x[3]) * MulDivNat(Abs(x[1]), Abs(x[2]), Abs(x[3])) :
         x \in {<<a, b, d>>} })

\* x/2 truncated toward zero.
Half(x) == Sign(x) * (Abs(x) \div 2)

\* a length times a physics constant given in hundredths
Times(x, f) == MulDiv(x, f, FQ)

\* a length times a scale
Scaled(x, s) == MulDiv(x, s, SQ)

Px(n) == n * PQ

RECURSIVE SqrtIter(_, _, _)
SqrtIter(n, lo, hi) ==
  IF lo >= hi THEN lo
  ELSE IF ((lo + hi + 1) \div 2) * ((lo + hi + 1) \div 2) <= n
  THEN SqrtIter(n, (lo + hi + 1) \div 2, hi)
  ELSE SqrtIter(n, lo, (lo + hi + 1) \div 2 - 1)

\* floor(sqrt(n)), 0 <= n < 2^30
ISqrt(n) == SqrtIter(n, 0, 2^15)

\* Math.hypot(dx, dy) of two pixel differences, in units of 1/DQ pixel
Hypot(dx, dy) == ISqrt((dx * dx + dy * dy) * DQ * DQ)

-----------------------------------------------------------------------------
(* src/src/lib/config.ts *)

physicsProfiles ==
  [ rigid |->
      [ panFriction |-> 85, panLerpFactor |-> 25, snapBackStiffness |-> 10,
        rubberBandStiffness |-> 98, zoomFriction |-> 85, zoomLerpFactor |-> 20,
        zoomSnapBackStiffness |-> 10, pinchRubberBandStiffness |-> 90 ],
    default |->
      [ panFriction |-> 92, panLerpFactor |-> 15, snapBackStiffness |-> 5,
        rubberBandStiffness |-> 85, zoomFriction |-> 92, zoomLerpFactor |-> 15,
        zoomSnapBackStiffness |-> 5, pinchRubberBandStiffness |-> 25 ],
    fluid |->
      [ panFriction |-> 95, panLerpFactor |-> 10, snapBackStiffness |-> 3,
        rubberBandStiffness |-> 75, zoomFriction |-> 95, zoomLerpFactor |-> 10,
        zoomSnapBackStiffness |-> 3, pinchRubberBandStiffness |-> 15 ] ]

\* a ?? b : b when a is null or undefined, a otherwise (0 is kept)
Coalesce(a, b) == IF a = None THEN b ELSE Get(a)

DefaultWorldSize == [width |-> 6000, height |-> 6000]
DefaultMinScale == SQ \div 2
DefaultMaxScale == 2 * SQ
DefaultWheelSensitivity == WQ \div 10000
DefaultBgSize == 500

NoOptions ==
  [ bounciness |-> None, worldSize |-> None, minScale |-> None, maxScale |-> None,
    wheelSensitivity |-> None, backgroundImage |-> None ]

\* a || b on a number: b also when a is 0
OrElse(a, b) == IF a = None \/ a = Some(0) THEN b ELSE Get(a)

\* faulty variant: the numeric options are merged with || instead of ??
createMovementConfigFalsy(o) ==
  [ worldSize |-> Coalesce(o.worldSize, DefaultWorldSize),
    minScale |-> OrElse(o.minScale, DefaultMinScale),
    maxScale |-> OrElse(o.maxScale, DefaultMaxScale),
    wheelSensitivity |-> OrElse(o.wheelSensitivity, DefaultWheelSensitivity),
    initialBgSize |-> IF o.backgroundImage = None THEN DefaultBgSize
                      ELSE Get(o.backgroundImage).size,
    physics |-> physicsProfiles[Coalesce(o.bounciness, "default")] ]

\* lines 69-81
createMovementConfig(o) ==
  LET bounciness == Coalesce(o.bounciness, "default")
  IN  [ worldSize |-> Coalesce(o.worldSize, DefaultWorldSize),
        minScale |-> Coalesce(o.minScale, DefaultMinScale),
        maxScale |-> Coalesce(o.maxScale, DefaultMaxScale),
        wheelSensitivity |-> Coalesce(o.wheelSensitivity, DefaultWheelSensitivity),
        initialBgSize |-> IF o.backgroundImage = None THEN DefaultBgSize
                          ELSE Get(o.backgroundImage).size,
        physics |-> physicsProfiles[bounciness] ]

-----------------------------------------------------------------------------
(* src/src/hooks/useCanvasMovement.ts : the bounds calculator *)

ZeroBounds == [minX |-> 0, maxX |-> 0, minY |-> 0, maxY |-> 0]

Both(x) == <<x, x>>

\* faulty variant: the margin of a world that fits is not halved
AxisRangeUnhalved(viewport, world, worldOrigin, scaledContent, scale) ==
  IF scaledContent > viewport
  THEN <<viewport - Scaled(worldOrigin + world, scale), -Scaled(worldOrigin, scale)>>
  ELSE Both((viewport - scaledContent) - Scaled(worldOrigin, scale))

\* faulty variant: max is not initialised to min when the world fits
AxisRangeUncentred(viewport, world, worldOrigin, scaledContent, scale) ==
  IF scaledContent > viewport
  THEN <<viewport - Scaled(worldOrigin + world, scale), -Scaled(worldOrigin, scale)>>
  ELSE <<Half(viewport - scaledContent) - Scaled(worldOrigin, scale),
         -Scaled(worldOrigin, scale)>>

\* faulty variant: the covering minimum forgets the world origin
AxisRangeNoOrigin(viewport, world, worldOrigin, scaledContent, scale) ==
  IF scaledContent > viewport
  THEN <<viewport - Scaled(world, scale), -Scaled(worldOrigin, scale)>>
  ELSE Both(Half(viewport - scaledContent) - Scaled(worldOrigin, scale))

\* lines 66-71 (73-78): one axis, <<min, max>>, from the viewport and world
\* sizes in length units
AxisRange(viewport, world, worldOrigin, scaledContent, scale) ==
  IF scaledContent > viewport
  THEN <<viewport - Scaled(worldOrigin + world, scale), -Scaled(worldOrigin, scale)>>
  ELSE Both(Half(viewport - scaledContent) - Scaled(worldOrigin, scale))

\* lines 61-71 (62-78): one axis of getViewportBounds from the sizes in pixels
AxisBounds(viewport, world, scale) ==
  AxisRange(Px(viewport), Px(world), -Half(Px(world)), Scaled(Px(world), scale), scale)

BoundsOf(x, y) == [minX |-> x[1], maxX |-> x[2], minY |-> y[1], maxY |-> y[2]]

\* lines 56-81
getViewportBounds(c, cfg, scale) ==
  IF c = None THEN ZeroBounds
  ELSE BoundsOf(AxisBounds(Get(c).w, cfg.worldSize.width, scale),
                AxisBounds(Get(c).h, cfg.worldSize.height, scale))

-----------------------------------------------------------------------------
(* src/src/hooks/useCanvasMovement.ts : the state of one hook instance *)

\* the value requestAnimationFrame returns (a non-zero handle)
FrameId == "frame"

\* lines 20-39
InitEngine ==
  [ isDragging |-> FALSE, isPinching |-> FALSE,
    scale |-> SQ, targetScale |-> SQ, scaleVelocity |-> 0,
    translateX |-> 0, translateY |-> 0, targetX |-> 0, targetY |-> 0,
    velocityX |-> 0, velocityY |-> 0,
    startX |-> 0, startY |-> 0, lastTranslateX |-> 0, lastTranslateY |-> 0,
    lastPinchDist |-> None,
    focalX |-> 0, focalY |-> 0,
    animationId |-> NULL,
    nonFiniteTarget |-> FALSE, nonFinite |-> FALSE ]

Clamp(x, lo, hi) == Max(lo, Min(hi, x))

\* the thresholds of the settle tests and of the zoom gate
PanVelocityEps == 100
PanPositionEps == 5000
ZoomVelocityEps == 10
ZoomScaleEps == 100
ZoomMoveEps == 1

\* what a physics step returns: the engine it leaves and its return value
Step(e, settled) == [eng |-> e, settled |-> settled]

\* faulty variant: the follow step does not record its delta as the velocity
PanFollowUnrecorded(e, dx, dy) ==
  Step([e EXCEPT !.translateX = @ + dx, !.translateY = @ + dy], FALSE)

\* faulty variant: the follow step reports settled
PanFollowSettled(e, dx, dy) ==
  Step([e EXCEPT !.translateX = @ + dx, !.translateY = @ + dy,
                 !.velocityX = dx, !.velocityY = dy], TRUE)

\* lines 85-91: translate follows the target
PanFollow(e, dx, dy) ==
  Step([e EXCEPT !.translateX = @ + dx, !.translateY = @ + dy,
                 !.velocityX = dx, !.velocityY = dy], FALSE)

\* lines 107-117: the settle test and the snap
PanSettle(e, clampedX, clampedY, vx, vy, isSettled) ==
  Step([e EXCEPT !.velocityX = vx, !.velocityY = vy,
                 !.translateX = IF isSettled THEN clampedX ELSE @ + vx,
                 !.translateY = IF isSettled THEN clampedY ELSE @ + vy],
       isSettled)

\* lines 104-111
PanIntegrate(e, clampedX, clampedY, vx, vy) ==
  PanSettle(e, clampedX, clampedY, vx, vy,
            /\ Abs(vx) < PanVelocityEps
            /\ Abs(vy) < PanVelocityEps
            /\ Abs(clampedX - (e.translateX + vx)) < PanPositionEps
            /\ Abs(clampedY - (e.translateY + vy)) < PanPositionEps)

\* faulty variant: friction is applied before the spring force is added
PanSpringFrictionFirst(e, cfg, clampedX, clampedY) ==
  Only({ PanIntegrate(e, clampedX, clampedY, v[1], v[2]) : v \in {
    << Times(e.velocityX, cfg.physics.panFriction)
         + Times(clampedX - e.translateX, cfg.physics.snapBackStiffness),
       Times(e.velocityY, cfg.physics.panFriction)
         + Times(clampedY - e.translateY, cfg.physics.snapBackStiffness) >> } })

\* lines 98-103: the spring force accumulated into the velocity, then friction
PanSpring(e, cfg, clampedX, clampedY) ==
  Only({ PanIntegrate(e, clampedX, clampedY, v[1], v[2]) : v \in {
    << Times(e.velocityX + Times(clampedX - e.translateX, cfg.physics.snapBackStiffness),
             cfg.physics.panFriction),
       Times(e.velocityY + Times(clampedY - e.translateY, cfg.physics.snapBackStiffness),
             cfg.physics.panFriction) >> } })

\* lines 94-96
PanIdle(e, cfg, bounds) ==
  PanSpring(e, cfg, Clamp(e.translateX, bounds.minX, bounds.maxX),
                    Clamp(e.translateY, bounds.minY, bounds.maxY))

\* lines 83-118
updatePanPhysics(e, c, cfg) ==
  IF e.isDragging
  THEN PanFollow(e, Times(e.targetX - e.translateX, cfg.physics.panLerpFactor),
                    Times(e.targetY - e.translateY, cfg.physics.panLerpFactor))
  ELSE Only({ PanIdle(e, cfg, bounds) : bounds \in {getViewportBounds(c, cfg, e.scale)} })

\* lines 125-133: the pinch target, rubber-banded against [minScale, maxScale]
PinchBand(targetScale, cfg) ==
  IF targetScale < cfg.minScale
  THEN cfg.minScale - Times(cfg.minScale - targetScale, cfg.physics.pinchRubberBandStiffness)
  ELSE IF targetScale > cfg.maxScale
  THEN cfg.maxScale + Times(targetScale - cfg.maxScale, cfg.physics.pinchRubberBandStiffness)
  ELSE targetScale

\* lines 155-160: translate and target after the re-anchoring
Place(e, newScale, tx, ty) ==
  [e EXCEPT !.scale = newScale, !.translateX = tx, !.translateY = ty,
            !.targetX = tx, !.targetY = ty]

\* lines 151-158: translate = focal - (focal - translate) * (scale / oldScale);
\* the ratio is Infinity or NaN when oldScale is 0
Anchor(e, newScale) ==
  IF e.scale = 0 THEN [e EXCEPT !.scale = newScale, !.nonFinite = TRUE]
  ELSE Place(e, newScale,
             e.focalX - MulDiv(e.focalX - e.translateX, newScale, e.scale),
             e.focalY - MulDiv(e.focalY - e.translateY, newScale, e.scale))

\* lines 150-161: scale moved by the velocity when the gate is open
ZoomMove(e, sv) ==
  IF Abs(sv) > ZoomMoveEps \/ e.isPinching THEN Anchor(e, e.scale + sv) ELSE e

\* faulty variant: a settled step zeroes the velocity and leaves the scale
ZoomSnapLoose(e, cfg) == [e EXCEPT !.scaleVelocity = 0]

\* lines 163-166: the snap of a settled step
ZoomSnap(e, cfg) ==
  [e EXCEPT !.scale = Clamp(e.scale, cfg.minScale, cfg.maxScale), !.scaleVelocity = 0]

ZoomFinish(e, cfg, isSettled) ==
  Step(IF isSettled THEN ZoomSnap(e, cfg) ELSE e, isSettled)

\* lines 145-161
ZoomApply(e, cfg, clampedScale, sv) ==
  Only({ ZoomFinish(moved, cfg,
                    /\ ~e.isPinching
                    /\ Abs(sv) < ZoomVelocityEps
                    /\ Abs(clampedScale - e.scale) < ZoomScaleEps) :
         moved \in {ZoomMove([e EXCEPT !.scaleVelocity = sv], sv)} })

\* lines 134-135 and 141-143: the velocity of this step
ZoomVelocity(e, cfg, clampedScale) ==
  IF e.isPinching
  THEN Times(PinchBand(e.targetScale, cfg) - e.scale, cfg.physics.zoomLerpFactor)
  ELSE Times(e.scaleVelocity
               + Times(clampedScale - e.scale, cfg.physics.zoomSnapBackStiffness),
             cfg.physics.zoomFriction)

ZoomClamped(e, cfg, clampedScale) ==
  Only({ ZoomApply(e, cfg, clampedScale, sv) : sv \in {ZoomVelocity(e, cfg, clampedScale)} })

\* lines 120-168
updateZoomPhysics(e, cfg) ==
  ZoomClamped(e, cfg, Clamp(e.scale, cfg.minScale, cfg.maxScale))

\* faulty variant: the loop sleeps when the zoom reports settled
NextFrameZoomOnly(panSettled, zoomSettled) ==
  IF zoomSettled THEN NULL ELSE FrameId

\* faulty variant: the loop sleeps as soon as either system reports settled
NextFrameEither(panSettled, zoomSettled) ==
  IF panSettled \/ zoomSettled THEN NULL ELSE FrameId

\* lines 176-180: what animate leaves in animationId
NextFrame(panSettled, zoomSettled) ==
  IF panSettled /\ zoomSettled THEN NULL ELSE FrameId

AnimateEnd(panSettled, zoom) ==
  [zoom.eng EXCEPT !.animationId = NextFrame(panSettled, zoom.settled)]

AnimateZoom(pan, cfg) ==
  Only({ AnimateEnd(pan.settled, zoom) : zoom \in {updateZoomPhysics(pan.eng, cfg)} })

\* lines 124-161 with a targetScale that is Infinity or NaN while pinching, and
\* lines 83-168 with a scale that is: the step leaves Infinity or NaN in scale,
\* translate and target, and no settle test passes
NonFiniteStep(e) == e.nonFinite \/ (e.isPinching /\ e.nonFiniteTarget)

\* lines 170-181 (updateTransform only writes the DOM)
animate(e, c, cfg) ==
  IF NonFiniteStep(e) THEN [e EXCEPT !.nonFinite = TRUE, !.animationId = FrameId]
  ELSE Only({ AnimateZoom(pan, cfg) : pan \in {updatePanPhysics(e, c, cfg)} })

\* lines 183-185
startAnimation(e) ==
  IF e.animationId = NULL THEN [e EXCEPT !.animationId = FrameId] ELSE e

\* faulty variant: startAnimation requests a frame whether or not one is pending
RequestedAgain(e, pending) == pending + 1

\* the browser's queue after startAnimation
Requested(e, pending) == IF e.animationId = NULL THEN pending + 1 ELSE pending

\* lines 176-180: the browser's queue after animate, which ran one of the
\* pending callbacks and left e
Rerequested(e, pending) == IF e.animationId # NULL THEN pending + 1 ELSE pending

\* faulty variant: the teardown leaves the pending callback in the queue
onCleanupKeeping(e, pending) == pending

\* line 331: the browser's queue after onCleanup; cancelAnimationFrame removes
\* the callback that animationId names when it is still pending
onCleanup(e, pending) ==
  IF e.animationId # NULL /\ pending > 0 THEN pending - 1 ELSE pending

-----------------------------------------------------------------------------
(* src/src/hooks/useCanvasMovement.ts : the event handlers.  A mouse or    *)
(* wheel event is [x, y, button, deltaY, interactive]; a touch is [x, y];  *)
(* x and y are in pixels; interactive says whether the event's target lies *)
(* inside an element that carries data-interactive.                        *)

\* faulty variant: the pan begins without ending the pinch
BeginPanInPinch(e, x, y) ==
  [e EXCEPT !.isDragging = TRUE,
            !.startX = Px(x), !.startY = Px(y),
            !.lastTranslateX = e.translateX, !.lastTranslateY = e.translateY,
            !.velocityX = 0, !.velocityY = 0, !.scaleVelocity = 0]

\* lines 195-201 and 245-251: a pan gesture begins at pointer (x, y)
BeginPan(e, x, y) ==
  [e EXCEPT !.isDragging = TRUE, !.isPinching = FALSE,
            !.startX = Px(x), !.startY = Px(y),
            !.lastTranslateX = e.translateX, !.lastTranslateY = e.translateY,
            !.velocityX = 0, !.velocityY = 0, !.scaleVelocity = 0]

\* lines 189-203
onMouseDown(e, ev) ==
  IF ev.button # 0 THEN e
  ELSE IF ev.interactive THEN e
  ELSE startAnimation(BeginPan(e, ev.x, ev.y))

\* faulty variant: the excess beyond max is added to min
applyRubberBandMin(raw, min, max, k) ==
  IF raw < min THEN min + Times(raw - min, FQ - k)
  ELSE IF raw > max THEN min + Times(raw - max, FQ - k)
  ELSE raw

\* lines 213-219; k is physics.rubberBandStiffness
applyRubberBand(raw, min, max, k) ==
  IF raw < min THEN min + Times(raw - min, FQ - k)
  ELSE IF raw > max THEN max + Times(raw - max, FQ - k)
  ELSE raw

\* lines 207-210: the target the pointer implies, before rubber banding
RawTarget(lastTranslate, start, client) == lastTranslate + (Px(client) - start)

\* faulty variant: the raw target is taken from the current translate instead
\* of the translate at the gesture's start
MoveTargetFromTranslate(e, ev, bounds, k) ==
  [e EXCEPT
    !.targetX = applyRubberBand(RawTarget(e.translateX, e.startX, ev.x),
                                bounds.minX, bounds.maxX, k),
    !.targetY = applyRubberBand(RawTarget(e.translateY, e.startY, ev.y),
                                bounds.minY, bounds.maxY, k)]

\* lines 221-222
MoveTarget(e, ev, bounds, k) ==
  [e EXCEPT
    !.targetX = applyRubberBand(RawTarget(e.lastTranslateX, e.startX, ev.x),
                                bounds.minX, bounds.maxX, k),
    !.targetY = applyRubberBand(RawTarget(e.lastTranslateY, e.startY, ev.y),
                                bounds.minY, bounds.maxY, k)]

\* lines 205-223
onMouseMove(e, ev, c, cfg) ==
  IF ~e.isDragging THEN e
  ELSE Only({ MoveTarget(e, ev, bounds, cfg.physics.rubberBandStiffness) :
              bounds \in {getViewportBounds(c, cfg, e.scale)} })

\* line 225
onMouseUp(e) == [e EXCEPT !.isDragging = FALSE]

\* faulty variant: the sign of the wheel's impulse is lost
WheelDeltaUnsigned(deltaY, cfg) == MulDiv(deltaY * SQ, cfg.wheelSensitivity, WQ)

\* line 232: the wheel's impulse, deltaY * -wheelSensitivity
WheelDelta(deltaY, cfg) == MulDiv(-deltaY * SQ, cfg.wheelSensitivity, WQ)

\* faulty variant: the impulse replaces the velocity instead of adding to it
ImpulseAssigned(e, delta, fx, fy) ==
  startAnimation([e EXCEPT !.focalX = fx, !.focalY = fy, !.scaleVelocity = delta])

\* lines 233-235, 341-346, 352-357: an impulse on scaleVelocity anchored at (fx, fy)
Impulse(e, delta, fx, fy) ==
  startAnimation([e EXCEPT !.focalX = fx, !.focalY = fy, !.scaleVelocity = @ + delta])

\* lines 227-236
onWheel(e, ev, cfg) ==
  IF ev.interactive THEN e
  ELSE Impulse(e, WheelDelta(ev.deltaY, cfg), Px(ev.x), Px(ev.y))

\* the impulse of a zoom button, 0.005
ZoomButtonImpulse == 500

\* faulty variant: the button acts without a container, the focal point at 0
zoomInUnmeasured(e, c) ==
  IF c = None THEN Impulse(e, ZoomButtonImpulse, 0, 0)
  ELSE Impulse(e, ZoomButtonImpulse, Half(Px(Get(c).w)), Half(Px(Get(c).h)))

\* lines 338-348
zoomIn(e, c) ==
  IF c = None THEN e
  ELSE Impulse(e, ZoomButtonImpulse, Half(Px(Get(c).w)), Half(Px(Get(c).h)))

\* lines 349-359
zoomOut(e, c) ==
  IF c = None THEN e
  ELSE Impulse(e, -ZoomButtonImpulse, Half(Px(Get(c).w)), Half(Px(Get(c).h)))

\* lines 257-260 and 274-277: the distance between the first two touches
PinchDist(ts) == Hypot(ts[1].x - ts[2].x, ts[1].y - ts[2].y)

\* lines 238-264; ts is e.touches
onTouchStart(e, ts, interactive) ==
  IF interactive THEN e
  ELSE IF Len(ts) = 1 THEN startAnimation(BeginPan(e, ts[1].x, ts[1].y))
  ELSE IF Len(ts) = 2
  THEN startAnimation([e EXCEPT !.isDragging = FALSE, !.isPinching = TRUE,
                                !.lastPinchDist = Some(PinchDist(ts)),
                                !.targetScale = e.scale,
                                !.nonFiniteTarget = e.nonFinite])
  ELSE startAnimation(e)

\* line 278: targetScale *= newDist / lastPinchDist
PinchScale(targetScale, newDist, lastPinchDist) ==
  MulDiv(targetScale, newDist, lastPinchDist)

\* faulty variant: lastPinchDist is not advanced to the new distance
PinchMoveStale(e, ts, newDist) ==
  [e EXCEPT !.targetScale = IF Get(e.lastPinchDist) = 0 \/ e.nonFiniteTarget THEN @
                            ELSE PinchScale(@, newDist, Get(e.lastPinchDist)),
            !.nonFiniteTarget = @ \/ Get(e.lastPinchDist) = 0,
            !.focalX = Half(Px(ts[1].x) + Px(ts[2].x)),
            !.focalY = Half(Px(ts[1].y) + Px(ts[2].y))]

\* lines 278-283; newDist / 0 is Infinity or NaN
PinchMove(e, ts, newDist) ==
  [e EXCEPT !.targetScale = IF Get(e.lastPinchDist) = 0 \/ e.nonFiniteTarget THEN @
                            ELSE PinchScale(@, newDist, Get(e.lastPinchDist)),
            !.nonFiniteTarget = @ \/ Get(e.lastPinchDist) = 0,
            !.lastPinchDist = Some(newDist),
            !.focalX = Half(Px(ts[1].x) + Px(ts[2].x)),
            !.focalY = Half(Px(ts[1].y) + Px(ts[2].y))]

\* lines 266-285
onTouchMove(e, ts, c, cfg) ==
  IF Len(ts) = 1 /\ e.isDragging
  THEN onMouseMove(e, [x |-> ts[1].x, y |-> ts[1].y], c, cfg)
  ELSE IF Len(ts) = 2 /\ e.lastPinchDist # None
  THEN PinchMove(e, ts, PinchDist(ts))
  ELSE e

\* faulty variant: the pinch is ended only when the last touch leaves
onTouchEndLast(e, ts) ==
  [e EXCEPT !.isDragging = FALSE,
            !.isPinching = IF Len(ts) = 0 THEN FALSE ELSE @]

\* lines 287-291; ts is e.touches, the touches that remain
onTouchEnd(e, ts) ==
  [e EXCEPT !.isDragging = FALSE,
            !.isPinching = IF Len(ts) < 2 THEN FALSE ELSE @]

\* faulty variant: the recentring also stops the motion
setupAtRest(e, c) ==
  IF c = None THEN e
  ELSE [e EXCEPT !.translateX = Half(Px(Get(c).w)), !.targetX = Half(Px(Get(c).w)),
                 !.translateY = Half(Px(Get(c).h)), !.targetY = Half(Px(Get(c).h)),
                 !.velocityX = 0, !.velocityY = 0, !.scaleVelocity = 0]

\* lines 293-299
setup(e, c) ==
  IF c = None THEN e
  ELSE [e EXCEPT !.translateX = Half(Px(Get(c).w)), !.targetX = Half(Px(Get(c).w)),
                 !.translateY = Half(Px(Get(c).h)), !.targetY = Half(Px(Get(c).h))]


-----------------------------------------------------------------------------
(* The engine in its host: input events, display frames, resize, teardown  *)

MaxEvents == 3
MaxFrames == 2
MaxTouches == 3

Pt(x, y) == [x |-> x, y |-> y]

\* what the host may pass as options
HostOptions ==
  { NoOptions,
    [NoOptions EXCEPT !.minScale = Some(SQ)],
    [NoOptions EXCEPT !.bounciness = Some("rigid"),
                      !.worldSize = Some([width |-> 600, height |-> 6000])] }

Viewports == { [w |-> 800, h |-> 600] }
Resized == { [w |-> 1024, h |-> 768] }
Containers == { Some(v) : v \in Viewports } \cup { None }

\* where the mouse pointer may be, and where each finger may be
MousePoints == { Pt(400, 300), Pt(450, 300), Pt(100, 500) }
FingerPoints ==
  << { Pt(400, 300), Pt(300, 300) }, { Pt(500, 300), Pt(700, 300) }, { Pt(400, 100) } >>
FingerAt(k) == FingerPoints[Min(k, Len(FingerPoints))]

\* a touch at p; a touch event's target is the element the finger first came
\* down on, so each touch keeps whether that element is flagged interactive
Touch(p, i) == [x |-> p.x, y |-> p.y, interactive |-> i]

\* the mouse and wheel events: accepted ones, one on an interactive element,
\* one with another button
MouseDowns ==
  { [x |-> p.x, y |-> p.y, button |-> 0, interactive |-> FALSE] : p \in {Pt(400, 300)} }
    \cup { [x |-> 400, y |-> 300, button |-> 0, interactive |-> TRUE],
           [x |-> 400, y |-> 300, button |-> 2, interactive |-> FALSE] }
Wheels ==
  { [x |-> 400, y |-> 300, deltaY |-> -100, interactive |-> FALSE],
    [x |-> 100, y |-> 500, deltaY |-> 1, interactive |-> FALSE],
    [x |-> 400, y |-> 300, deltaY |-> -100, interactive |-> TRUE] }

MayHandle == steps.ev < MaxEvents
Handled == steps' = [steps EXCEPT !.ev = @ + 1]

\* the window listeners of lines 311-312 are attached by onMount when the
\* container exists and detached by onCleanup
WindowListening == container # None /\ ~disposed

Fixed == UNCHANGED <<options, config, log, args, ret>>

\* lines 14-39 and 301-324: the hook is constructed and mounted
Init ==
  /\ options \in HostOptions
  /\ config = createMovementConfig(options)
  /\ container \in Containers
  /\ container = None => options = NoOptions
  /\ eng = setup(InitEngine, container)
  /\ raf = 0
  /\ disposed = FALSE
  /\ touches = << >>
  /\ steps = [ev |-> 0, fr |-> 0]
  /\ log = << >>
  /\ args = None
  /\ ret = None

\* the mousedown event ev arrives
MouseDownAt(ev) ==
  /\ MayHandle
  /\ eng' = onMouseDown(eng, ev)
  /\ raf' = IF ev.button = 0 /\ ~ev.interactive THEN Requested(eng, raf) ELSE raf
  /\ Handled
  /\ UNCHANGED <<container, disposed, touches>>
  /\ Fixed

MouseDown == \E ev \in MouseDowns : MouseDownAt(ev)

\* the window's mousemove with the pointer at p
MouseMoveTo(p) ==
  /\ MayHandle
  /\ WindowListening
  /\ Handled
  /\ UNCHANGED <<container, raf, disposed, touches>>
  /\ Fixed
  /\ eng' = onMouseMove(eng, [x |-> p.x, y |-> p.y], container, config)

MouseMove == \E p \in MousePoints : MouseMoveTo(p)

MouseUp ==
  /\ MayHandle
  /\ WindowListening
  /\ eng' = onMouseUp(eng)
  /\ Handled
  /\ UNCHANGED <<container, raf, disposed, touches>>
  /\ Fixed

\* the wheel event ev arrives
WheelAt(ev) ==
  /\ MayHandle
  /\ eng' = onWheel(eng, ev, config)
  /\ raf' = IF ev.interactive THEN raf ELSE Requested(eng, raf)
  /\ Handled
  /\ UNCHANGED <<container, disposed, touches>>
  /\ Fixed

Wheel == \E ev \in Wheels : WheelAt(ev)

ZoomIn ==
  /\ MayHandle
  /\ eng' = zoomIn(eng, container)
  /\ raf' = IF container = None THEN raf ELSE Requested(eng, raf)
  /\ Handled
  /\ UNCHANGED <<container, disposed, touches>>
  /\ Fixed

ZoomOut ==
  /\ MayHandle
  /\ eng' = zoomOut(eng, container)
  /\ raf' = IF container = None THEN raf ELSE Requested(eng, raf)
  /\ Handled
  /\ UNCHANGED <<container, disposed, touches>>
  /\ Fixed

\* the touch listeners of lines 315-320 are attached by onMount when the
\* container exists
TouchListening == container # None /\ ~disposed

\* n fingers come down, one or two at once, on an element whose interactive
\* flag is i
TouchStartOf(n, i) ==
  /\ MayHandle
  /\ TouchListening
  /\ Len(touches) + n <= MaxTouches
  /\ n = 2 => (touches = << >> /\ ~i)
  /\ \E p \in FingerAt(Len(touches) + 1), q \in FingerAt(Len(touches) + n) :
       /\ touches' = IF n = 1 THEN Append(touches, Touch(p, i))
                               ELSE <<Touch(p, i), Touch(q, i)>>
       /\ eng' = onTouchStart(eng, touches', i)
  /\ raf' = IF i THEN raf ELSE Requested(eng, raf)
  /\ Handled
  /\ UNCHANGED <<container, disposed>>
  /\ Fixed

TouchStart == \E n \in 1..2, i \in BOOLEAN : TouchStartOf(n, i)

\* finger k moves; the event's target is the element that finger started on,
\* which onTouchMove does not look at
TouchMoveOf(k) ==
  /\ MayHandle
  /\ TouchListening
  /\ k \in 1..Len(touches)
  /\ \E p \in FingerAt(k) :
       /\ touches' = [touches EXCEPT ![k] = Touch(p, @.interactive)]
       /\ touches' # touches
  /\ Handled
  /\ UNCHANGED <<container, raf, disposed>>
  /\ Fixed
  /\ eng' = onTouchMove(eng, touches', container, config)

TouchMove == \E k \in 1..MaxTouches : TouchMoveOf(k)

\* touchend and touchcancel: a finger leaves
\* finger k leaves; the event's target is the element that finger started on,
\* which onTouchEnd does not look at
TouchEndOf(k) ==
  /\ MayHandle
  /\ TouchListening
  /\ k \in 1..Len(touches)
  /\ touches' = SubSeq(touches, 1, k - 1) \o SubSeq(touches, k + 1, Len(touches))
  /\ eng' = onTouchEnd(eng, touches')
  /\ Handled
  /\ UNCHANGED <<container, raf, disposed>>
  /\ Fixed

TouchEnd == \E k \in 1..MaxTouches : TouchEndOf(k)

\* lines 322-323: the ResizeObserver calls setup
Resize ==
  /\ MayHandle
  /\ container # None /\ ~disposed
  /\ \E v \in Resized \cup Viewports :
       /\ Some(v) # container
       /\ container' = Some(v)
       /\ eng' = setup(eng, container')
  /\ Handled
  /\ UNCHANGED <<raf, disposed, touches>>
  /\ Fixed

\* lines 326-332: the host is torn down; onCleanup was registered by onMount
\* only when the container existed
Cleanup ==
  /\ MayHandle
  /\ ~disposed
  /\ disposed' = TRUE
  /\ raf' = IF container # None THEN onCleanup(eng, raf) ELSE raf
  /\ Handled
  /\ UNCHANGED <<container, eng, touches>>
  /\ Fixed

\* how long after the previous callback the browser may run the next one, in
\* display intervals of 1/60 s: on time, or one frame dropped
FrameIntervals == { 1, 2 }

\* a display frame: the browser runs the pending callback, elapsed intervals
\* after the previous one; animate declares no parameter for the timestamp
\* the browser passes and reads no clock (line 170)
FrameAfter(elapsed) ==
  /\ raf > 0
  /\ steps.fr < MaxFrames
  /\ eng' = animate(eng, container, config)
  /\ raf' = Rerequested(eng', raf - 1)
  /\ steps' = [steps EXCEPT !.fr = @ + 1]
  /\ UNCHANGED <<container, disposed, touches>>
  /\ Fixed

Frame == \E elapsed \in FrameIntervals : FrameAfter(elapsed)

Next ==
  \/ MouseDown
  \/ MouseMove
  \/ MouseUp
  \/ Wheel
  \/ ZoomIn
  \/ ZoomOut
  \/ TouchStart
  \/ TouchMove
  \/ TouchEnd
  \/ Resize
  \/ Cleanup
  \/ Frame

Spec == Init /\ [][Next]_vars

-----------------------------------------------------------------------------
(* getViewportBounds over a range of viewports, worlds and scales *)

BoundsViewports ==
  { [w |-> 800, h |-> 600], [w |-> 1024, h |-> 200], [w |-> 300, h |-> 600] }
BoundsWorlds ==
  { [width |-> 6000, height |-> 6000], [width |-> 600, height |-> 400],
    [width |-> 800, height |-> 600], [width |-> 1000, height |-> 300] }
BoundsScales ==
  { SQ \div 10, SQ \div 2, (3 * SQ) \div 4, SQ, (5 * SQ) \div 4, 2 * SQ, 3 * SQ }

Idle == UNCHANGED <<options, config, container, eng, raf, disposed, touches, steps, log, args>>

InitBounds ==
  /\ options \in { [NoOptions EXCEPT !.worldSize = Some(w)] : w \in BoundsWorlds }
  /\ config = createMovementConfig(options)
  /\ container \in { Some(v) : v \in BoundsViewports }
  /\ eng \in { [InitEngine EXCEPT !.scale = s] : s \in BoundsScales }
  /\ raf = 0
  /\ disposed = FALSE
  /\ touches = << >>
  /\ steps = [ev |-> 0, fr |-> 0]
  /\ log = << >>
  /\ args = None
  /\ ret = None

CallBounds ==
  /\ ret = None
  /\ ret' = Some(getViewportBounds(container, config, eng.scale))
  /\ Idle

SpecBounds == InitBounds /\ [][CallBounds]_vars

\* the exact test "axisWorldSize * scale <= viewportSize", sizes in pixels
Fits(world, scale, viewport) == world * scale <= viewport * SQ

\* axisWorldSize * scale / 2, in length units
HalfScaled(world, scale) == MulDiv(Px(world), scale, 2 * SQ)

\* C1: whenever worldWidth*scale <= viewportWidth getViewportBounds returns
\* minX = maxX, and whenever worldHeight*scale <= viewportHeight it returns
\* minY = maxY, each axis by its own test.
BoundsCentred ==
  ret # None =>
    /\ Fits(config.worldSize.width, eng.scale, Get(container).w)
         => Get(ret).minX = Get(ret).maxX
    /\ Fits(config.worldSize.height, eng.scale, Get(container).h)
         => Get(ret).minY = Get(ret).maxY

\* a call where the world fits the viewport on one axis only
BoundsCentredWitness ==
  /\ ret # None
  /\ Fits(config.worldSize.width, eng.scale, Get(container).w)
  /\ ~Fits(config.worldSize.height, eng.scale, Get(container).h)
  /\ Get(ret).minX = Get(ret).maxX
  /\ Get(ret).minY < Get(ret).maxY

\* C2: when axisWorldSize*scale > viewportSize, max = -worldOrigin*scale and
\* min = viewportSize - (worldOrigin + axisWorldSize)*scale with
\* worldOrigin = -axisWorldSize/2; viewport width 800, world width 6000 and
\* scale 1 give minX = -2200 and maxX = 3000.
BoundsCovering ==
  ret # None =>
    /\ ~Fits(config.worldSize.width, eng.scale, Get(container).w)
         => /\ Get(ret).maxX = HalfScaled(config.worldSize.width, eng.scale)
            /\ Get(ret).minX = Px(Get(container).w)
                                 - HalfScaled(config.worldSize.width, eng.scale)
    /\ ~Fits(config.worldSize.height, eng.scale, Get(container).h)
         => /\ Get(ret).maxY = HalfScaled(config.worldSize.height, eng.scale)
            /\ Get(ret).minY = Px(Get(container).h)
                                 - HalfScaled(config.worldSize.height, eng.scale)
    /\ (Get(container).w = 800 /\ config.worldSize.width = 6000 /\ eng.scale = SQ)
         => Get(ret).minX = Px(-2200) /\ Get(ret).maxX = Px(3000)

BoundsCoveringWitness ==
  /\ ret # None
  /\ Get(container).w = 800 /\ config.worldSize.width = 6000 /\ eng.scale = SQ
  /\ Get(ret).minX = Px(-2200)
  /\ Get(ret).maxX = Px(3000)

-----------------------------------------------------------------------------
(* createMovementConfig over the options a host may pass, absent, zero and *)
(* non-default values included                                             *)

ConfigOptions ==
  [ bounciness : { None, Some("rigid"), Some("default"), Some("fluid") },
    worldSize : { None, Some([width |-> 6000, height |-> 6000]),
                  Some([width |-> 600, height |-> 400]) },
    minScale : { None, Some(0), Some(SQ \div 4), Some(SQ) },
    maxScale : { None, Some(2 * SQ), Some(4 * SQ) },
    wheelSensitivity : { None, Some(0), Some(WQ \div 5000) },
    backgroundImage : { None } ]

InitConfig ==
  /\ options \in ConfigOptions
  /\ config = createMovementConfig(NoOptions)
  /\ container = None
  /\ eng = InitEngine
  /\ raf = 0
  /\ disposed = FALSE
  /\ touches = << >>
  /\ steps = [ev |-> 0, fr |-> 0]
  /\ log = << >>
  /\ args = None
  /\ ret = None

CallConfig ==
  /\ ret = None
  /\ ret' = Some(createMovementConfig(options))
  /\ Idle

SpecConfig == InitConfig /\ [][CallConfig]_vars

\* the value the result must hold for an option with documented default d
Documented(option, d) == IF option = None THEN d ELSE Get(option)

\* C9: createMovementConfig fills every unset option with its documented
\* default (worldSize 6000x6000, minScale 0.5, maxScale 2.0, wheelSensitivity
\* 0.0001, preset 'default'), keeps every option that is set, and returns
\* exactly the physics constants of the named preset.
ConfigDefaults ==
  ret # None =>
    /\ Get(ret).worldSize = Documented(options.worldSize, [width |-> 6000, height |-> 6000])
    /\ Get(ret).minScale = Documented(options.minScale, SQ \div 2)
    /\ Get(ret).maxScale = Documented(options.maxScale, 2 * SQ)
    /\ Get(ret).wheelSensitivity = Documented(options.wheelSensitivity, WQ \div 10000)
    /\ Get(ret).physics = physicsProfiles[Documented(options.bounciness, "default")]

\* a call that sets some options, one of them to zero, and leaves others unset
ConfigDefaultsWitness ==
  /\ ret # None
  /\ options.minScale = Some(0)
  /\ options.bounciness = Some("fluid")
  /\ options.maxScale = None
  /\ Get(ret).minScale = 0
  /\ Get(ret).maxScale = 2 * SQ
  /\ Get(ret).physics.panFriction = 95

-----------------------------------------------------------------------------
(* applyRubberBand over pairs of raw targets around and on the bounds, for *)
(* the stiffness of each preset                                            *)

RubberBounds == { <<Px(-2200), Px(3000)>>, <<Px(-100), Px(-100)>>, <<Px(0), Px(900)>> }
RubberRaws ==
  { Px(b) + d : b \in { -2300, -2200, -100, 0, 450, 900, 3000, 3100 }, d \in { -1, 0, 1 } }
RubberStiffness ==
  { physicsProfiles[n].rubberBandStiffness : n \in { "rigid", "default", "fluid" } }

InitRubber ==
  /\ options = NoOptions
  /\ config = createMovementConfig(options)
  /\ container = None
  /\ eng = InitEngine
  /\ raf = 0
  /\ disposed = FALSE
  /\ touches = << >>
  /\ steps = [ev |-> 0, fr |-> 0]
  /\ log = << >>
  /\ args \in { Some([lo |-> r[1], hi |-> r[2], min |-> b[1], max |-> b[2], k |-> k]) :
                  r \in { q \in RubberRaws \X RubberRaws : q[1] <= q[2] },
                  b \in RubberBounds, k \in RubberStiffness }
  /\ ret = None

CallRubber ==
  /\ ret = None
  /\ ret' = Some([lo |-> applyRubberBand(Get(args).lo, Get(args).min, Get(args).max, Get(args).k),
                  hi |-> applyRubberBand(Get(args).hi, Get(args).min, Get(args).max, Get(args).k)])
  /\ UNCHANGED <<options, config, container, eng, raf, disposed, touches, steps, log, args>>

SpecRubber == InitRubber /\ [][CallRubber]_vars

\* C5: for a stiffness strictly between 0 and 1 and bounds min <= max, the
\* rubber band of onMouseMove is non-decreasing in raw (lo <= hi gives
\* f(lo) <= f(hi)), returns the bound when raw is the bound, and leaves raw
\* unchanged inside [min, max].
RubberMonotone ==
  ret # None =>
    /\ Get(ret).lo <= Get(ret).hi
    /\ Get(args).lo \in { Get(args).min, Get(args).max } => Get(ret).lo = Get(args).lo
    /\ (Get(args).min <= Get(args).hi /\ Get(args).hi <= Get(args).max)
         => Get(ret).hi = Get(args).hi

\* a call with one raw target on the upper bound and the other beyond it
RubberMonotoneWitness ==
  /\ ret # None
  /\ Get(args).lo = Get(args).max
  /\ Get(args).hi > Get(args).max
  /\ Get(ret).lo = Get(args).max
  /\ Get(ret).hi > Get(args).max
  /\ Get(ret).hi < Get(args).hi

-----------------------------------------------------------------------------
(* Properties of the engine in its host *)

\* the engine the pending frame's updateZoomPhysics starts from
BeforeZoom == updatePanPhysics(eng, container, config).eng

\* the engine the pending frame's updateZoomPhysics leaves
AfterZoom == updateZoomPhysics(BeforeZoom, config).eng

\* translate' + ((focal - translate) / scale) * scale' = focal on one axis, to
\* within one unit of length for the rounding
SamePoint(focal, translate, scale, translateAfter, scaleAfter) ==
  Abs((focal - translateAfter) - MulDiv(focal - translate, scaleAfter, scale)) <= 1

\* C3: every execution of updateZoomPhysics, the one that reports settled and
\* snaps scale to the clamp included, keeps the world point under the focal
\* screen coordinate: translate' + ((focal - translate) / scale) * scale' = focal
\* on both axes.
FocalInvariance ==
  (raf > 0 /\ ~NonFiniteStep(eng) /\ BeforeZoom.scale > 0) =>
    /\ SamePoint(BeforeZoom.focalX, BeforeZoom.translateX, BeforeZoom.scale,
                 AfterZoom.translateX, AfterZoom.scale)
    /\ SamePoint(BeforeZoom.focalY, BeforeZoom.translateY, BeforeZoom.scale,
                 AfterZoom.translateY, AfterZoom.scale)

\* the step is a display frame, the only step that advances steps.fr
FrameStep == steps'.fr # steps.fr

\* the step is an input event or an API call, which advance steps.ev
EventStep == steps'.ev # steps.ev

\* the centre of the viewport, in length units
CentreX == Half(Px(Get(container).w))
CentreY == Half(Px(Get(container).h))

\* what an impulse of delta anchored at (fx, fy) does to the engine and the
\* browser's queue: scale and targetScale are kept
Impelled(delta, fx, fy) ==
  /\ eng'.scale = eng.scale
  /\ eng'.targetScale = eng.targetScale
  /\ eng'.scaleVelocity = eng.scaleVelocity + delta
  /\ eng'.focalX = fx /\ eng'.focalY = fy
  /\ eng'.animationId # NULL
  /\ raf' > 0

\* C7: on a mounted, live engine zoomIn and zoomOut add +0.005 and -0.005 to
\* scaleVelocity with the focal point at the viewport centre, an accepted
\* wheel event adds -deltaY * wheelSensitivity with the focal point at the
\* cursor (deltaY = -100 at sensitivity 0.0001 adds +0.01); none of them
\* assigns scale or targetScale and each leaves an animation frame pending.
ImpulseOnly ==
  [][ (EventStep /\ ~disposed /\ container # None) =>
        /\ ZoomIn => Impelled(SQ \div 200, CentreX, CentreY)
        /\ ZoomOut => Impelled(-(SQ \div 200), CentreX, CentreY)
        /\ \A ev \in Wheels :
             (WheelAt(ev) /\ ~ev.interactive) =>
               /\ Impelled(-((ev.deltaY * config.wheelSensitivity * SQ) \div WQ),
                           Px(ev.x), Px(ev.y))
               /\ (ev.deltaY = -100 /\ config.wheelSensitivity = WQ \div 10000)
                    => eng'.scaleVelocity = eng.scaleVelocity + SQ \div 100
    ]_vars

\* two impulses have accumulated before any frame ran: a wheel notch of
\* deltaY = -100 and a zoomIn, the focal point at the centre
ImpulseOnlyWitness ==
  /\ container = Some([w |-> 800, h |-> 600])
  /\ ~disposed
  /\ steps = [ev |-> 2, fr |-> 0]
  /\ eng.scaleVelocity = SQ \div 100 + SQ \div 200
  /\ eng.scale = SQ /\ eng.targetScale = SQ
  /\ eng.focalX = Px(400) /\ eng.focalY = Px(300)
  /\ raf > 0

\* the pan target onMouseMove must leave for pointer (x, y): a function of the
\* pointer, the anchor of the gesture and the bounds of the current scale
Banded(raw, min, max) ==
  IF min <= raw /\ raw <= max THEN raw
  ELSE applyRubberBand(raw, min, max, config.physics.rubberBandStiffness)

TargetOf(x, y, bounds) ==
  << Banded(eng.lastTranslateX + (Px(x) - eng.startX), bounds.minX, bounds.maxX),
     Banded(eng.lastTranslateY + (Px(y) - eng.startY), bounds.minY, bounds.maxY) >>

PanTargetOf(x, y) ==
  <<eng'.targetX, eng'.targetY>>
    \in { TargetOf(x, y, bounds) : bounds \in {getViewportBounds(container, config, eng.scale)} }

AnchorKept ==
  /\ eng'.startX = eng.startX /\ eng'.startY = eng.startY
  /\ eng'.lastTranslateX = eng.lastTranslateX
  /\ eng'.lastTranslateY = eng.lastTranslateY
  /\ eng'.scale = eng.scale

\* C10: while Panning, every pointer move (mouse, or the single touch) leaves
\* target = lastTranslate + (pointer - startPointer), rubber-banded only when
\* that raw value is outside the bounds and equal to it when inside, whatever
\* the moves and frames before it; the move keeps the anchor, and so does a
\* frame.
PanTargetLaw ==
  [][ eng.isDragging =>
        /\ \A p \in MousePoints :
             (EventStep /\ MouseMoveTo(p)) =>
               /\ PanTargetOf(p.x, p.y)
               /\ AnchorKept
        /\ (EventStep /\ Len(touches) = 1 /\ TouchMove) =>
               /\ PanTargetOf(touches'[1].x, touches'[1].y)
               /\ AnchorKept
        /\ FrameStep =>
               /\ eng'.startX = eng.startX /\ eng'.startY = eng.startY
               /\ eng'.lastTranslateX = eng.lastTranslateX
               /\ eng'.lastTranslateY = eng.lastTranslateY
    ]_vars

\* a drag from rest at (400, 300): after an earlier move and a frame that
\* moved translate, the pointer is 50 px to the right of where it went down
PanTargetLawWitness ==
  /\ eng.isDragging
  /\ steps.ev = 3
  /\ eng.startX = Px(400) /\ eng.startY = Px(300)
  /\ eng.lastTranslateX = Px(400)
  /\ eng.translateX # eng.lastTranslateX
  /\ eng.targetX = eng.lastTranslateX + Px(50)
  /\ eng.targetY = eng.lastTranslateY

\* the two-touch lists a pinch may move to
PinchPairs == { <<p, q>> : p \in FingerAt(1), q \in FingerAt(2) }

\* targetScale after a two-touch move of engine e to b
MovedTo(e, b) == onTouchMove(e, b, container, config).targetScale

\* C6: during a pinch, a two-touch move to distance d1 followed by a move to
\* distance d2 leaves the targetScale that the single move to d2 (ratio
\* r1 * r2) leaves, to within the rounding of the two multiplications, and an
\* animation frame in between changes neither targetScale nor the recorded
\* distance.
PinchComposition ==
  [][ (/\ eng.isPinching
       /\ eng.lastPinchDist # None
       /\ ~eng.nonFiniteTarget /\ ~eng.nonFinite) =>
        /\ (EventStep /\ Len(touches) = 2 /\ TouchMove) =>
             \A b \in PinchPairs :
               (Get(eng.lastPinchDist) > 0 /\ PinchDist(touches') > 0 /\ PinchDist(b) > 0) =>
                 Abs(MovedTo(eng', b) - MovedTo(eng, b))
                   <= PinchDist(b) \div PinchDist(touches') + 1
        /\ FrameStep =>
             /\ eng'.targetScale = eng.targetScale
             /\ eng'.lastPinchDist = eng.lastPinchDist
    ]_vars

\* a pinch that began 100 px apart at scale 1 and was moved to 200 px and then
\* to 400 px apart
PinchCompositionWitness ==
  /\ eng.isPinching
  /\ steps.ev = 3
  /\ touches = <<Touch(Pt(300, 300), FALSE), Touch(Pt(700, 300), FALSE)>>
  /\ eng.lastPinchDist = Some(400 * DQ)
  /\ eng.targetScale = 4 * SQ

-----------------------------------------------------------------------------
(* The engine left alone: no gesture, no input, frames until the loop      *)
(* sleeps.  A released drag leaves translate outside the legal rectangle,  *)
(* a velocity, and a frame pending.                                        *)

\* a display frame, as Frame, with no limit on the number of frames
Tick ==
  /\ raf > 0
  /\ eng' = animate(eng, container, config)
  /\ raf' = Rerequested(eng', raf - 1)
  /\ UNCHANGED <<options, config, container, disposed, touches, steps, log, args, ret>>

SettleOptions == { [NoOptions EXCEPT !.bounciness = b] : b \in { None, Some("rigid"), Some("fluid") } }

\* how far outside the rectangle translate starts, and the velocity it has
SettleOffsets == { (6 * PQ) \div 10, 50 * PQ, 300 * PQ }
SettleVelocities == { 0, 5 * PQ }

\* the engine after a drag was released at (x, y) with velocity v, scale s
Released(s, x, y, v) ==
  [InitEngine EXCEPT !.scale = s, !.targetScale = s,
                     !.translateX = x, !.translateY = y, !.targetX = x, !.targetY = y,
                     !.velocityX = v, !.velocityY = -v,
                     !.animationId = FrameId]

\* translates outside the rectangle b: beyond either side on X, and on Y
\* beyond the lower side or on the upper side
OutsideX(b) == { b.maxX + d : d \in SettleOffsets } \cup { b.minX - d : d \in SettleOffsets }
OutsideY(b) == { b.minY - d : d \in SettleOffsets } \cup { b.maxY }

InitSettle ==
  /\ options \in SettleOptions
  /\ config = createMovementConfig(options)
  /\ container = Some([w |-> 800, h |-> 600])
  /\ \E s \in { config.minScale, SQ, config.maxScale } :
       \E x \in OutsideX(getViewportBounds(container, config, s)),
          y \in OutsideY(getViewportBounds(container, config, s)),
          v \in SettleVelocities :
         /\ eng = Released(s, x, y, v)
         /\ args = Some([x |-> x, y |-> y])
  /\ raf = 1
  /\ disposed = FALSE
  /\ touches = << >>
  /\ steps = [ev |-> 0, fr |-> 0]
  /\ log = << >>
  /\ ret = None

\* the browser runs every requested frame
SpecSettle == InitSettle /\ [][Tick]_vars /\ WF_vars(Tick)

InRectangle(b) ==
  /\ b.minX <= eng.translateX /\ eng.translateX <= b.maxX
  /\ b.minY <= eng.translateY /\ eng.translateY <= b.maxY

Asleep == raf = 0 /\ eng.animationId = NULL

AtRest ==
  /\ Asleep
  /\ InRectangle(getViewportBounds(container, config, eng.scale))
  /\ config.minScale <= eng.scale /\ eng.scale <= config.maxScale

\* C4: from any scale in [minScale, maxScale] and any translate outside the
\* legal rectangle, with no gesture and no input, the frames eventually leave
\* translate inside the rectangle, scale inside its range and the loop
\* asleep, no frame requested.
SettleConvergence == <>AtRest

\* the loop is asleep inside the rectangle after starting 300 px beyond its
\* upper X bound and 50 px beyond its lower Y bound
SettleConvergenceWitness ==
  /\ AtRest
  /\ args # None
  /\ Get(args).x = getViewportBounds(container, config, eng.scale).maxX + 300 * PQ
  /\ Get(args).y = getViewportBounds(container, config, eng.scale).minY - 50 * PQ
  /\ eng.translateX < Get(args).x
  /\ eng.translateY > Get(args).y

-----------------------------------------------------------------------------
(* One wheel event on the engine at rest after setup, then frames until    *)
(* the loop sleeps                                                         *)

ScenarioWheels ==
  { [x |-> p.x, y |-> p.y, deltaY |-> d, interactive |-> FALSE] :
      p \in { Pt(400, 300), Pt(100, 500) }, d \in { -100, -50, 100 } }

InitWheel ==
  /\ options \in { NoOptions, [NoOptions EXCEPT !.bounciness = Some("fluid")] }
  /\ config = createMovementConfig(options)
  /\ container = Some([w |-> 800, h |-> 600])
  /\ eng = setup(InitEngine, container)
  /\ raf = 0
  /\ disposed = FALSE
  /\ touches = << >>
  /\ steps = [ev |-> 0, fr |-> 0]
  /\ log = << >>
  /\ args = None
  /\ ret = None

\* the one wheel event of the scenario, kept in args
OneWheel ==
  /\ args = None
  /\ \E ev \in ScenarioWheels :
       /\ args' = Some(ev)
       /\ eng' = onWheel(eng, ev, config)
       /\ raf' = Requested(eng, raf)
  /\ UNCHANGED <<options, config, container, disposed, touches, steps, log, ret>>

SpecWheel == InitWheel /\ [][OneWheel \/ Tick]_vars

\* where the world point that was under the cursor of the wheel event, at
\* rest after setup (translate at the centre, scale 1), is on screen now
ScreenX(ev) == eng.translateX + Scaled(Px(ev.x) - CentreX, eng.scale)
ScreenY(ev) == eng.translateY + Scaled(Px(ev.y) - CentreY, eng.scale)

\* C8: viewport 800x600, default configuration, the engine at rest after
\* setup: one wheel event with deltaY = -100 at cursor (400, 300) and frames
\* until the loop sleeps end with scale > 1 and the world point that was under
\* the cursor under it again; the same for the other zoom-in events of the
\* scenario, to within a hundredth of a pixel.
WheelScenario ==
  (args # None /\ Asleep /\ Get(args).deltaY < 0) =>
    /\ eng.scale > SQ
    /\ Abs(ScreenX(Get(args)) - Px(Get(args).x)) <= PQ \div 100
    /\ Abs(ScreenY(Get(args)) - Px(Get(args).y)) <= PQ \div 100
    /\ (Get(args).x = 400 /\ Get(args).y = 300) =>
         eng.translateX = Px(400) /\ eng.translateY = Px(300)

WheelScenarioWitness ==
  /\ options = NoOptions
  /\ args = Some([x |-> 400, y |-> 300, deltaY |-> -100, interactive |-> FALSE])
  /\ Asleep
  /\ eng.scale > SQ
  /\ eng.scaleVelocity = 0
  /\ eng.translateX = Px(400) /\ eng.translateY = Px(300)

-----------------------------------------------------------------------------
(* Gestures, interactive regions, resize, teardown and the frame loop      *)

\* the step handled an event whose target is inside an interactive element
InteractiveStep ==
  /\ EventStep
  /\ \/ \E ev \in MouseDowns : ev.interactive /\ MouseDownAt(ev)
     \/ \E ev \in Wheels : ev.interactive /\ WheelAt(ev)
     \/ \E n \in 1..2 : TouchStartOf(n, TRUE)
     \/ \E k \in 1..Len(touches) :
          touches[k].interactive /\ (TouchMoveOf(k) \/ TouchEndOf(k))

\* C11: an input event (mouse-down, wheel, touch-start, touch-move, touch-end)
\* whose target is inside an interactive element changes nothing of the
\* engine (gesture flags, translate, target, scale, targetScale, velocities,
\* focal point, pinch distance) and nothing of the pending frames.
InteractiveIgnored ==
  [][ InteractiveStep => (eng' = eng /\ raf' = raf) ]_vars

\* C12: in every reachable state, whatever the interleaving of mouse, touch,
\* wheel, button and resize events and animation frames, isDragging and
\* isPinching are not both true.
OneGesture == ~(eng.isDragging /\ eng.isPinching)

\* a pinch of two fingers was taken over by a pan: the fingers are still
\* down, the pinch distance is recorded, and the engine is dragging
OneGestureWitness ==
  /\ Len(touches) = 2
  /\ eng.lastPinchDist # None
  /\ eng.isDragging
  /\ ~eng.isPinching

\* C13: a wheel event that arrives while a pinch is active is not accepted:
\* it changes neither scaleVelocity nor the focal point nor anything else of
\* the engine.
WheelRefusedInPinch ==
  [][ (EventStep /\ eng.isPinching) =>
        \A ev \in Wheels : WheelAt(ev) => eng' = eng ]_vars

\* C14: a wheel event accepted while panning cancels the pan: right after
\* the handler isDragging is false, and the impulse was applied anchored at
\* the cursor.
WheelCancelsPan ==
  [][ (EventStep /\ eng.isDragging) =>
        \A ev \in Wheels :
          (WheelAt(ev) /\ ~ev.interactive) =>
            /\ eng'.scaleVelocity = eng.scaleVelocity + WheelDelta(ev.deltaY, config)
            /\ eng'.focalX = Px(ev.x) /\ eng'.focalY = Px(ev.y)
            /\ ~eng'.isDragging ]_vars

\* the step is the teardown of a host whose onCleanup callback was registered
CleanupStep == ~disposed /\ disposed' /\ container # None

\* C15: when the onCleanup callback runs, a pending animation frame request
\* is cancelled: right after the teardown no callback is pending, so no
\* animate step runs for a frame requested before it.
TeardownCancels == [][ CleanupStep => raf' = 0 ]_vars

\* the host was torn down while a frame was pending: animationId still names
\* the request, and the browser's queue is empty
TeardownCancelsWitness ==
  /\ disposed
  /\ container # None
  /\ eng.animationId = FrameId
  /\ raf = 0

\* C16: after the teardown no physics step and no input handling executes:
\* no call of an input handler or of zoomIn or zoomOut, and no frame, changes
\* the engine or requests an animation frame, whether or not a frame was
\* pending at the teardown.  The host is one that was mounted on a container,
\* so its onCleanup callback has run.
TeardownFinal ==
  [][ (disposed /\ container # None) => (eng' = eng /\ raf' = raf) ]_vars

\* the step is a resize notification: the observer saw the container change
ResizeStep == EventStep /\ container' # container

\* C17: a resize notification runs no physics: it sets translate and target
\* to the centre of the viewport (clientWidth / 2, clientHeight / 2) and
\* leaves scale, targetScale, scaleVelocity, the pan velocity, the focal point
\* and the gesture flags as they were.
ResizeRecentres ==
  [][ ResizeStep =>
        /\ eng'.translateX = Px(Get(container').w) \div 2
        /\ eng'.translateY = Px(Get(container').h) \div 2
        /\ eng'.targetX = eng'.translateX
        /\ eng'.targetY = eng'.translateY
        /\ eng'.scale = eng.scale
        /\ eng'.targetScale = eng.targetScale
        /\ eng'.scaleVelocity = eng.scaleVelocity
        /\ eng'.velocityX = eng.velocityX
        /\ eng'.velocityY = eng.velocityY
        /\ eng'.focalX = eng.focalX
        /\ eng'.focalY = eng.focalY
        /\ eng'.isDragging = eng.isDragging
        /\ eng'.isPinching = eng.isPinching ]_vars

\* the container was resized to 1024x768 during a drag with a wheel impulse
\* under way: the view is at the new centre and the impulse is still there
ResizeRecentresWitness ==
  /\ container = Some([w |-> 1024, h |-> 768])
  /\ eng.translateX = Px(512) /\ eng.translateY = Px(384)
  /\ eng.targetX = Px(512) /\ eng.targetY = Px(384)
  /\ eng.isDragging
  /\ eng.scaleVelocity # 0

\* C18: a resize notification nudges the scheduler awake: after setup ran
\* with a measured container while the loop was asleep, an animation frame
\* is pending.
ResizeWakes ==
  [][ (ResizeStep /\ Asleep) => (raf' > 0 /\ eng'.animationId # NULL) ]_vars

\* C19: in every reachable state at most one animation frame request is
\* pending: startAnimation called by an input handler or a zoom button while
\* a frame is pending requests no second one, whatever the interleaving of
\* inputs and frames.
OnePending == raf <= 1

\* before any frame ran, a mousedown and then a wheel event each called
\* startAnimation: the drag and the impulse are there, one frame is pending
OnePendingWitness ==
  /\ steps.fr = 0
  /\ eng.isDragging
  /\ eng.scaleVelocity # 0
  /\ eng.animationId # NULL
  /\ raf = 1

\* what updatePanPhysics and then updateZoomPhysics return in the pending
\* frame: TRUE when both report settled
BothSettled ==
  /\ ~NonFiniteStep(eng)
  /\ Only({ pan.settled /\ updateZoomPhysics(pan.eng, config).settled :
              pan \in {updatePanPhysics(eng, container, config)} })

\* C20: the loop stops the instant both physics systems report settled:
\* after an animate step no frame is pending if and only if updatePanPhysics
\* and updateZoomPhysics both returned settled in that step, and otherwise
\* exactly one next frame is requested.
SleepIffSettled ==
  [][ FrameStep =>
        IF BothSettled
        THEN raf' = 0 /\ eng'.animationId = NULL
        ELSE raf' = 1 /\ eng'.animationId = FrameId ]_vars

\* a drag from (400, 300): a frame ran during the drag and asked for the
\* next one, the button was released, and the second frame found both
\* systems settled
SleepIffSettledWitness ==
  /\ steps = [ev |-> 2, fr |-> 2]
  /\ ~disposed
  /\ eng.startX = Px(400) /\ eng.startY = Px(300)
  /\ ~eng.isDragging
  /\ Asleep

-----------------------------------------------------------------------------
(* Defensive policy and malformed gesture sequences                        *)

\* C21: while the container element is unavailable, getViewportBounds
\* returns the zero rectangle, setup changes nothing, and zoomIn and zoomOut
\* change neither the focal point nor scaleVelocity (nor anything else) and
\* request no frame.
UnmeasuredNoOp ==
  [][ container = None =>
        /\ getViewportBounds(container, config, eng.scale) = ZeroBounds
        /\ setup(eng, container) = eng
        /\ (EventStep /\ (ZoomIn \/ ZoomOut)) => (eng' = eng /\ raf' = raf) ]_vars

\* without a container, a wheel event at (100, 500) and a frame moved the
\* scale, and a zoom button pressed afterwards left the focal point at the
\* cursor and the loop asleep
UnmeasuredNoOpWitness ==
  /\ container = None
  /\ steps = [ev |-> 2, fr |-> 1]
  /\ eng.focalX = Px(100) /\ eng.focalY = Px(500)
  /\ Asleep

\* every touch on the surface came down on an interactive element, so no
\* touch-start was accepted for any of them
NoAcceptedTouch ==
  /\ touches # << >>
  /\ \A j \in 1..Len(touches) : touches[j].interactive

\* C22: a move or up event with no matching accepted down is ignored: a
\* mouse-move or mouse-up while not dragging, and a touch-move or touch-end
\* that belongs to no accepted touch-start, leave every engine variable as it
\* was.
UnmatchedIgnored ==
  [][ EventStep =>
        /\ (~eng.isDragging /\ (MouseMove \/ MouseUp)) => eng' = eng
        /\ (NoAcceptedTouch /\ (TouchMove \/ TouchEnd)) => eng' = eng ]_vars

\* what a pinch move computed from the first two touches of ts leaves in
\* targetScale, the recorded distance and the focal point
PinchOfFirstTwo(e, ts) ==
  /\ e.targetScale = PinchMove(eng, ts, PinchDist(ts)).targetScale
  /\ e.lastPinchDist = Some(PinchDist(ts))
  /\ e.focalX = Half(Px(ts[1].x) + Px(ts[2].x))
  /\ e.focalY = Half(Px(ts[1].y) + Px(ts[2].y))

\* C23: a third simultaneous pointer is not tracked for the pinch: adding it
\* changes neither isPinching, targetScale, the recorded pinch distance nor
\* the focal point, and while three pointers are down a move of one of the
\* first two is still computed as a pinch of the first two.
ThirdPointer ==
  [][ (EventStep /\ eng.isPinching /\ eng.lastPinchDist # None /\ ~eng.nonFiniteTarget) =>
        /\ (Len(touches) = 2 /\ Len(touches') = 3) =>
             /\ eng'.isPinching
             /\ eng'.targetScale = eng.targetScale
             /\ eng'.lastPinchDist = eng.lastPinchDist
             /\ eng'.focalX = eng.focalX /\ eng'.focalY = eng.focalY
        /\ (Len(touches) = 3 /\ (TouchMoveOf(1) \/ TouchMoveOf(2))) =>
             PinchOfFirstTwo(eng', touches') ]_vars

-----------------------------------------------------------------------------
(* Gesture transitions                                                     *)

\* the step enters Panning: a mousedown of the primary button outside any
\* interactive element, or a touch-start that leaves exactly one touch
PanEntry ==
  /\ EventStep
  /\ \/ \E ev \in MouseDowns : ev.button = 0 /\ ~ev.interactive /\ MouseDownAt(ev)
     \/ Len(touches') = 1 /\ TouchStartOf(1, FALSE)

\* C24: every entry into Panning of a live hook zeroes velocityX, velocityY
\* and scaleVelocity, makes target equal to the current translate, and leaves
\* an animation frame pending, also when the earlier motion had not settled.
PanEntryResets ==
  [][ (PanEntry /\ ~disposed) =>
        /\ eng'.isDragging
        /\ eng'.velocityX = 0 /\ eng'.velocityY = 0 /\ eng'.scaleVelocity = 0
        /\ raf' = 1 /\ eng'.animationId # NULL
        /\ eng'.targetX = eng'.translateX /\ eng'.targetY = eng'.translateY ]_vars

\* the step enters Pinching: an accepted touch-start that leaves exactly two
\* touches
PinchEntry ==
  /\ EventStep
  /\ Len(touches') = 2
  /\ (TouchStartOf(1, FALSE) \/ TouchStartOf(2, FALSE))

\* C25: on entering Pinching the distance between the two touches is
\* recorded in lastPinchDist, the focal point is set to their midpoint, and
\* targetScale is set to the current scale.
PinchEntrySeeds ==
  [][ PinchEntry =>
        /\ eng'.isPinching
        /\ eng'.lastPinchDist = Some(PinchDist(touches'))
        /\ eng'.targetScale = eng.scale
        /\ eng'.focalX = Half(Px(touches'[1].x) + Px(touches'[2].x))
        /\ eng'.focalY = Half(Px(touches'[1].y) + Px(touches'[2].y)) ]_vars

\* C26: Panning is reached from Pinching only through Idle: no single step
\* of any interleaving of mouse and touch events leads from a state where
\* isPinching is true to a state where isDragging is true.
PinchToPanViaIdle == [][ eng.isPinching => ~eng'.isDragging ]_vars

\* the step ends a pinch by lifting one of its two fingers
PinchRelease ==
  /\ EventStep
  /\ eng.isPinching
  /\ Len(touches) = 2
  /\ TouchEnd

\* C27: after a pinch ends by releasing to one finger, the single-pointer pan
\* is entered again from the current position: the engine is dragging with
\* its anchor at the remaining pointer and the current translate, so the
\* moves of that pointer pan the viewport, and the anchor of a drag that
\* preceded the pinch is not used.
PinchReleasePans ==
  [][ PinchRelease =>
        /\ eng'.isDragging
        /\ eng'.startX = Px(touches'[1].x) /\ eng'.startY = Px(touches'[1].y)
        /\ eng'.lastTranslateX = eng'.translateX
        /\ eng'.lastTranslateY = eng'.translateY ]_vars

\* C28: gesture transitions on touch events: a second touch that goes down
\* on the canvas while Panning sets isDragging false and isPinching true; a
\* touch-end or touch-cancel that leaves fewer than two touches clears
\* isPinching; one that leaves no touch leaves both flags false.
TouchTransitions ==
  [][ EventStep =>
        /\ (/\ eng.isDragging
            /\ Len(touches) = 1 /\ Len(touches') = 2
            /\ ~touches'[2].interactive) => (~eng'.isDragging /\ eng'.isPinching)
        /\ (Len(touches') < Len(touches) /\ Len(touches') < 2) => ~eng'.isPinching
        /\ (Len(touches') < Len(touches) /\ Len(touches') = 0) =>
             (~eng'.isDragging /\ ~eng'.isPinching) ]_vars

\* one finger went down at (300, 300) (pan), a second one joined it (pinch),
\* and one of them was lifted: one touch is left and both flags are false
TouchTransitionsWitness ==
  /\ steps.ev = 3
  /\ Len(touches) = 1
  /\ eng.startX = Px(300) /\ eng.startY = Px(300)
  /\ eng.lastPinchDist # None
  /\ ~eng.isDragging /\ ~eng.isPinching

-----------------------------------------------------------------------------
(* Pan physics                                                             *)

\* the zoom physics of the pending frame has nothing to do: no scale velocity
\* and the scale in range, so the frame moves translate by the pan step alone
ZoomAtRest ==
  /\ eng.scaleVelocity = 0
  /\ eng.scale = Clamp(eng.scale, config.minScale, config.maxScale)

\* C29: while Panning each pan physics step moves translate by
\* (target - translate) * panLerpFactor on each axis, records exactly that
\* delta as the velocity and never reports settled (the next frame is
\* requested); the release keeps the recorded velocity, so the first idle
\* step starts from it.
PanFollows ==
  [][ /\ (FrameStep /\ eng.isDragging /\ ~NonFiniteStep(eng)) =>
           /\ eng'.velocityX = Times(eng.targetX - eng.translateX, config.physics.panLerpFactor)
           /\ eng'.velocityY = Times(eng.targetY - eng.translateY, config.physics.panLerpFactor)
           /\ ZoomAtRest =>
                /\ eng'.translateX = eng.translateX + eng'.velocityX
                /\ eng'.translateY = eng.translateY + eng'.velocityY
           /\ raf' = 1 /\ eng'.animationId = FrameId
      /\ (EventStep /\ eng.isDragging /\ ~eng'.isDragging) =>
           /\ eng'.velocityX = eng.velocityX
           /\ eng'.velocityY = eng.velocityY ]_vars

\* a drag from (400, 300) to (450, 300), one frame that moved translate by
\* the recorded delta, and the release: the velocity is still that delta
PanFollowsWitness ==
  /\ steps = [ev |-> 3, fr |-> 1]
  /\ ~eng.isDragging
  /\ eng.startX = Px(400)
  /\ eng.targetX = Px(450)
  /\ eng.velocityX = Times(Px(50), config.physics.panLerpFactor)
  /\ eng.translateX = Px(400) + eng.velocityX

\* one axis of an idle pan step from translate t and velocity v with the
\* bounds lo and hi: <<velocity, translate>> after the force, the friction
\* and the integration, in that order
SpringAxis(t, v, lo, hi) ==
  Only({ <<w, t + w>> : w \in {
    Times(v + Times(Clamp(t, lo, hi) - t, config.physics.snapBackStiffness),
          config.physics.panFriction) } })

\* the idle pan step of the pending frame, from the bounds at the current scale
SpringStep ==
  Only({ [x |-> SpringAxis(eng.translateX, eng.velocityX, b.minX, b.maxX),
          y |-> SpringAxis(eng.translateY, eng.velocityY, b.minY, b.maxY),
          clampedX |-> Clamp(eng.translateX, b.minX, b.maxX),
          clampedY |-> Clamp(eng.translateY, b.minY, b.maxY)] :
         b \in {getViewportBounds(container, config, eng.scale)} })

\* the step satisfies the law s; a step that reports settled puts translate on
\* the clamped position afterwards
Sprung(s) ==
  /\ eng'.velocityX = s.x[1]
  /\ eng'.velocityY = s.y[1]
  /\ (ZoomAtRest /\ ~eng.isPinching) =>
       \/ eng'.translateX = s.x[2] /\ eng'.translateY = s.y[2]
       \/ /\ eng'.animationId = NULL
          /\ eng'.translateX = s.clampedX /\ eng'.translateY = s.clampedY

\* C30: while not Panning each pan physics step takes the bounds for the
\* current scale and clamped = clamp(translate, bounds), adds
\* (clamped - translate) * snapBackStiffness to the velocity, multiplies the
\* velocity by panFriction and then adds it to translate, in that order and on
\* each axis.
PanSprings ==
  [][ (FrameStep /\ ~eng.isDragging /\ ~NonFiniteStep(eng)) => Sprung(SpringStep) ]_vars

\* rigid preset, world 600 px wide in a viewport of 800 (the x bounds are the
\* single point 400): a drag to 450, which the rubber band turns into the
\* target 401, one frame, the release, and one idle frame whose spring pulled
\* against the recorded velocity
PanSpringsWitness ==
  /\ steps = [ev |-> 3, fr |-> 2]
  /\ config.worldSize.width = 600
  /\ ~eng.isDragging
  /\ eng.targetX = Px(401)
  /\ eng.velocityX > 0
  /\ eng.velocityX < Times(Times(Px(1), config.physics.panLerpFactor), config.physics.panFriction)
  /\ eng.translateX > Px(400) + Times(Px(1), config.physics.panLerpFactor)

-----------------------------------------------------------------------------
(* Settling, pinch follow and re-anchoring                                 *)

\* what the pan physics of the pending frame returns
PanStep == updatePanPhysics(eng, container, config)

\* the frame that runs is one whose pan physics reports settled
PanSettles == raf > 0 /\ ~NonFiniteStep(eng) /\ PanStep.settled

\* C31: when the pan physics step reports settled, translate is set exactly
\* to the clamped position and the pan velocity is set to zero on both axes,
\* so that no residual velocity is left for a later wake-up.
PanSettleRests ==
  [][ PanSettles =>
        /\ ZoomAtRest =>
             /\ eng'.translateX = Clamp(eng'.translateX, getViewportBounds(container, config, eng.scale).minX,
                                        getViewportBounds(container, config, eng.scale).maxX)
             /\ eng'.translateY = Clamp(eng'.translateY, getViewportBounds(container, config, eng.scale).minY,
                                        getViewportBounds(container, config, eng.scale).maxY)
        /\ eng'.velocityX = 0 /\ eng'.velocityY = 0 ]_vars

\* the pinch target banded as the pan target is: the overflow beyond the
\* bound multiplied by 1 - pinchRubberBandStiffness
BandedAsPan(targetScale) ==
  IF targetScale < config.minScale
  THEN config.minScale
         + Times(targetScale - config.minScale, FQ - config.physics.pinchRubberBandStiffness)
  ELSE IF targetScale > config.maxScale
  THEN config.maxScale
         + Times(targetScale - config.maxScale, FQ - config.physics.pinchRubberBandStiffness)
  ELSE targetScale

\* C32: while Pinching a targetScale outside [minScale, maxScale] is
\* rubber-banded by the pan target's overflow formula with
\* pinchRubberBandStiffness, banded = bound + (targetScale - bound) *
\* (1 - pinchRubberBandStiffness), one inside the range is used as it is,
\* and the frame sets scaleVelocity to (banded - scale) * zoomLerpFactor.
PinchFollows ==
  [][ (FrameStep /\ eng.isPinching /\ ~NonFiniteStep(eng)) =>
        eng'.scaleVelocity
          = Times(BandedAsPan(eng.targetScale) - eng.scale, config.physics.zoomLerpFactor) ]_vars

InRange(scale) == config.minScale <= scale /\ scale <= config.maxScale

\* the scale velocity the idle zoom physics of the pending frame computes
IdleZoomVelocity ==
  Times(eng.scaleVelocity
          + Times(Clamp(eng.scale, config.minScale, config.maxScale) - eng.scale,
                  config.physics.zoomSnapBackStiffness),
        config.physics.zoomFriction)

\* the frame that runs is one whose zoom physics reports settled
ZoomSettles ==
  /\ FrameStep
  /\ ~NonFiniteStep(eng)
  /\ ~eng.isPinching
  /\ Abs(IdleZoomVelocity) < ZoomVelocityEps
  /\ Abs(Clamp(eng.scale, config.minScale, config.maxScale) - eng.scale) < ZoomScaleEps

\* the scale a step with velocity sv reaches before the snap
ScaleMoved(sv) == IF Abs(sv) > ZoomMoveEps THEN eng.scale + sv ELSE eng.scale

\* C33: when the zoom physics step reports settled, scale is set exactly to
\* clamp(scale, minScale, maxScale) and scaleVelocity to zero; so whenever the
\* loop is asleep after having run, minScale <= scale <= maxScale, and while
\* the hook lives a scale outside the range has a frame pending.
ZoomSettleSnaps ==
  [][ /\ ZoomSettles =>
           /\ eng'.scale = Clamp(ScaleMoved(IdleZoomVelocity), config.minScale, config.maxScale)
           /\ eng'.scaleVelocity = 0
      /\ (raf' = 0 /\ eng'.animationId = NULL /\ steps'.fr > 0) => InRange(eng'.scale)
      /\ (~InRange(eng'.scale) /\ ~disposed') => raf' > 0 ]_vars

\* minScale 1: a wheel event at (100, 500) pushed the scale below the range,
\* and the frame that settled put it back on minScale before the loop slept
ZoomSettleSnapsWitness ==
  /\ config.minScale = SQ
  /\ steps.fr = 1
  /\ Asleep
  /\ eng.scale = SQ
  /\ eng.scaleVelocity = 0
  /\ eng.focalX = Px(100)
  /\ eng.translateX # Px(400)

RECURSIVE Damped(_, _, _)
\* velocity v damped by the friction once for each of n display intervals:
\* v * friction^n
Damped(v, friction, n) ==
  IF n = 0 THEN v ELSE Damped(Times(v, friction), friction, n - 1)

\* the velocity an idle pan step accumulates on one axis before the damping
Forced(t, v, lo, hi) == v + Times(Clamp(t, lo, hi) - t, config.physics.snapBackStiffness)

\* C34: each animation step takes the time elapsed since the previous step,
\* and the idle pan damping is panFriction raised to the elapsed-time ratio,
\* so a step that comes two display intervals after the previous one damps
\* the velocity twice.
ElapsedScaled ==
  [][ (FrameStep /\ container # None /\ ~eng.isDragging /\ ~NonFiniteStep(eng)) =>
        \A elapsed \in FrameIntervals :
          FrameAfter(elapsed) =>
            /\ eng'.velocityX
                 = Damped(Forced(eng.translateX, eng.velocityX,
                                 getViewportBounds(container, config, eng.scale).minX,
                                 getViewportBounds(container, config, eng.scale).maxX),
                          config.physics.panFriction, elapsed)
            /\ eng'.velocityY
                 = Damped(Forced(eng.translateY, eng.velocityY,
                                 getViewportBounds(container, config, eng.scale).minY,
                                 getViewportBounds(container, config, eng.scale).maxY),
                          config.physics.panFriction, elapsed) ]_vars

\* the re-anchoring formula on one axis: focal - (focal - x) * (newScale / oldScale)
Reanchored(focal, x, newScale, oldScale) == focal - MulDiv(focal - x, newScale, oldScale)

\* C35: whenever a zoom physics step changes scale, the re-anchoring formula
\* is applied to the pan target as it is to translate:
\* target' = focal - (focal - target) * (newScale / oldScale) on both axes,
\* also when target differs from translate because a drag is in progress.
\* The steps are those of a drag on a mounted hook that do not settle the
\* zoom, up to one unit of rounding.
TargetReanchored ==
  [][ (/\ FrameStep
       /\ container # None
       /\ eng.isDragging
       /\ ~NonFiniteStep(eng)
       /\ eng.scale > 0
       /\ eng'.scale # eng.scale
       /\ ~ZoomSettles) =>
        /\ Abs(eng'.targetX - Reanchored(eng.focalX, eng.targetX, eng'.scale, eng.scale)) <= 1
        /\ Abs(eng'.targetY - Reanchored(eng.focalY, eng.targetY, eng'.scale, eng.scale)) <= 1 ]_vars

-----------------------------------------------------------------------------
(* What the code keeps without the specification saying so                 *)

\* C36: between mount and teardown, whenever a gesture is active (isDragging
\* or isPinching) an animation frame is pending: the loop does not go to
\* sleep in the middle of a drag or a pinch, whatever the interleaving of
\* input events and frames.
AwakeInGesture ==
  (~disposed /\ (eng.isDragging \/ eng.isPinching)) =>
    (raf = 1 /\ eng.animationId = FrameId)

\* two frames ran during a drag from (400, 300) whose target is at rest on
\* translate, and the next frame is still pending
AwakeInGestureWitness ==
  /\ ~disposed
  /\ eng.isDragging
  /\ steps.fr = 2
  /\ eng.targetX = eng.translateX /\ eng.targetY = eng.translateY
  /\ eng.scaleVelocity = 0
  /\ raf = 1

(* Zooming out faster than the scale is large *)

\* wheel events at the centre of the viewport that zoom out: a notch of a
\* mouse wheel and a fling of 6000 px
FlingDeltas == { 100, 6000 }
FlingWheels ==
  { [x |-> 400, y |-> 300, deltaY |-> d, interactive |-> FALSE] : d \in FlingDeltas }

MaxFlings == 2

\* a wheel event of the scenario, handled by onWheel
WheelOut ==
  /\ steps.ev < MaxFlings
  /\ \E ev \in FlingWheels :
       /\ eng' = onWheel(eng, ev, config)
       /\ raf' = Requested(eng, raf)
  /\ steps' = [steps EXCEPT !.ev = @ + 1]
  /\ UNCHANGED <<options, config, container, disposed, touches, log, args, ret>>

SpecZoomOut == InitWheel /\ [][WheelOut \/ Tick]_vars

\* C37: the scale is strictly positive in every reachable state, whatever
\* wheel events, zoom buttons, pinch moves and frames came before, so that
\* the ratio scale / oldScale of the re-anchoring is defined and positive.
ScalePositive == eng.scale > 0

(* A pinch whose fingers meet *)

\* where the two fingers of the pinch may be: both may be at the same point
PinchPoints == { Pt(400, 300), Pt(500, 300) }

MaxPinchMoves == 2

\* touchstart with two fingers at once, on the canvas
TwoDown ==
  /\ touches = << >>
  /\ steps.ev = 0
  /\ \E p \in PinchPoints, q \in PinchPoints :
       /\ touches' = <<Touch(p, FALSE), Touch(q, FALSE)>>
       /\ eng' = onTouchStart(eng, touches', FALSE)
  /\ raf' = Requested(eng, raf)
  /\ Handled
  /\ UNCHANGED <<container, disposed>>
  /\ Fixed

\* touchmove: one of the two fingers moves to another point
FingerMove ==
  /\ Len(touches) = 2
  /\ steps.ev <= MaxPinchMoves
  /\ \E k \in 1..2, p \in PinchPoints :
       /\ touches' = [touches EXCEPT ![k] = Touch(p, FALSE)]
       /\ touches' # touches
  /\ eng' = onTouchMove(eng, touches', container, config)
  /\ Handled
  /\ UNCHANGED <<container, raf, disposed>>
  /\ Fixed

SpecPinch == InitWheel /\ [][TwoDown \/ FingerMove \/ Tick]_vars

\* a touchmove with two touches that computes newDist / lastPinchDist
RatioStep == EventStep /\ Len(touches) = 2 /\ eng.lastPinchDist # None

\* C38: whenever onTouchMove computes newDist / lastPinchDist the recorded
\* distance is not 0, and targetScale is a finite positive number afterwards,
\* also when the two touches started at the same position.
PinchRatioDefined ==
  [][ RatioStep =>
        /\ Get(eng.lastPinchDist) # 0
        /\ ~eng'.nonFiniteTarget
        /\ eng'.targetScale > 0 ]_vars

(* The rectangle is never empty and holds the centre *)

\* translate as setup leaves it for the container of the call
Centred == setup(eng, container)

\* C39: for every positive scale, viewport size and world size
\* getViewportBounds returns minX <= maxX and minY <= maxY, and the centre of
\* the viewport, which setup assigns to translate, lies in the rectangle.
BoundsHoldCentre ==
  ret # None =>
    /\ Get(ret).minX <= Centred.translateX /\ Centred.translateX <= Get(ret).maxX
    /\ Get(ret).minY <= Centred.translateY /\ Centred.translateY <= Get(ret).maxY
    /\ Get(ret).minX <= Get(ret).maxX
    /\ Get(ret).minY <= Get(ret).maxY

\* a call where the world covers the viewport on x, with the centre strictly
\* inside, and fits it on y, where the rectangle is the centre
BoundsHoldCentreWitness ==
  /\ ret # None
  /\ eng.scale > 0
  /\ Get(ret).minX < Centred.translateX /\ Centred.translateX < Get(ret).maxX
  /\ Get(ret).minY = Centred.translateY /\ Get(ret).maxY = Centred.translateY
  /\ Centred.translateX = Half(Px(Get(container).w))

(* Asleep inside the rectangle *)

\* C40: once setup has run, in every state with no frame pending and no
\* gesture, translate lies in the rectangle getViewportBounds returns for the
\* current scale: the re-anchoring of the last frame does not undo its clamp.
AsleepInBounds ==
  (/\ container # None /\ ~disposed
   /\ Asleep /\ ~eng.isDragging /\ ~eng.isPinching) =>
     InRectangle(getViewportBounds(container, config, eng.scale))

====
